---- MODULE Spec2Model ----
(***************************************************************************)
(* A model of fanatic (src/main.go): the scrape-normalize-serialize        *)
(* pipeline (get, fetchEpisodes, generateXML) and the serving layer of      *)
(* main (the hourly refresh goroutine and the /rss.xml handler).            *)
(*                                                                         *)
(* Representation.                                                         *)
(*  - A string is a sequence of one-character strings (Chars), so that     *)
(*    parsing and formatting are computed character by character.          *)
(*  - A non-negative integer of the 64-bit range is the sequence of its    *)
(*    decimal digits, most significant first, without leading zeros        *)
(*    (<<0>> is zero): TLC's own integers are 32 bits wide and cannot hold *)
(*    a count of nanoseconds.                                              *)
(*  - A time.Time is [days, sod]: the days since 0001-01-01 and the second *)
(*    of the day, both UTC.                                                *)
(***************************************************************************)
EXTENDS Integers, Sequences, FiniteSets, TLC

VARIABLES
    world,      \* what the network serves to the run under study
    pc,         \* "start" before generateXML has run, "done" after
    fres,       \* the result of fetchEpisodes: episodes, err, fetched
    gres,       \* the result of generateXML: doc, err
    xml,        \* main's variable xml (line 188), shared with the handlers
    err,        \* main's variable err (line 188), shared with the handlers
    hist,       \* the results of the runs that have assigned their result, in order
    rpc,        \* the refresh goroutine: "off", "wait" or "assign"
    pend,       \* the stores of line 193 still to be made
    hpc,        \* each /rss.xml handler: "idle", "fmt", "write", "done"
    hloc,       \* each handler's request: the runs completed when it started
    resp        \* each handler's response

vars == <<world, pc, fres, gres, xml, err, hist, rpc, pend, hpc, hloc, resp>>

pipeVars == <<world, pc, fres, gres>>
serverVars == <<xml, err, hist, rpc, pend, hpc, hloc, resp>>

\* ---------------------------------------------------------------- bounds

\* The longest page (matching button.audio elements) of the pipeline runs.
MaxElems == 3

\* The generation runs of a server behaviour (the initial run included).
MaxRuns == 3

\* The concurrently running /rss.xml handlers.
NumHandlers == 2

\* ---------------------------------------------------------------- strings

NoErr == "nil"

\* Decimal digit characters, in order: DigitChars[d + 1] is the digit d.
DigitChars == <<"0", "1", "2", "3", "4", "5", "6", "7", "8", "9">>

IsDigitChar(c) == \E d \in 1..10 : DigitChars[d] = c

DigitVal(c) == (CHOOSE d \in 1..10 : DigitChars[d] = c) - 1

\* isDigit(s, i) of package time: s has a digit at the 0-based index i.
isDigit(s, i) == i < Len(s) /\ IsDigitChar(s[i + 1])

\* s[n:] of Go.
From(s, n) == SubSeq(s, n + 1, Len(s))

\* ---------------------------------------------------------------- decimals

Zero == <<0>>

\* a < b, a <= b on digit sequences without leading zeros.
RECURSIVE LexLess(_, _)
LexLess(a, b) ==
    IF a = <<>> THEN FALSE
    ELSE IF Head(a) # Head(b) THEN Head(a) < Head(b)
    ELSE LexLess(Tail(a), Tail(b))

DecLess(a, b) ==
    IF Len(a) # Len(b) THEN Len(a) < Len(b) ELSE LexLess(a, b)

DecLeq(a, b) == a = b \/ DecLess(a, b)

\* x * 10 + d.
DecPush(x, d) == IF x = Zero THEN <<d>> ELSE Append(x, d)

\* x * 10^k.
RECURSIVE DecShift(_, _)
DecShift(x, k) == IF k = 0 \/ x = Zero THEN x ELSE DecShift(Append(x, 0), k - 1)

\* 1<<63, (1<<63)/10, and (1<<63)/1e9, the limits time.ParseDuration tests.
Two63 == <<9,2,2,3,3,7,2,0,3,6,8,5,4,7,7,5,8,0,8>>
Two63Div10 == <<9,2,2,3,3,7,2,0,3,6,8,5,4,7,7,5,8,0>>
Two63DivSecond == <<9,2,2,3,3,7,2,0,3,6>>
MaxInt64 == <<9,2,2,3,3,7,2,0,3,6,8,5,4,7,7,5,8,0,7>>

\* An int64 (and a time.Duration, an int64 of nanoseconds): sign and magnitude.
Int64(neg, mag) == [neg |-> neg /\ mag # Zero, mag |-> mag]

Nat64(mag) == Int64(FALSE, mag)

\* ---------------------------------------------------------------- gjson

\* A value gjson.Get finds at a path of the payload: nothing (Null), a JSON
\* string, or a JSON integer literal.
JNull == [type |-> "Null", str |-> <<>>, num |-> Nat64(Zero)]
JStr(s) == [type |-> "String", str |-> s, num |-> Nat64(Zero)]
JNum(n) == [type |-> "Number", str |-> <<>>, num |-> n]

\* The decimal digits of a magnitude as characters, and fmt's %d of an int64.
RECURSIVE DigitsToChars(_)
DigitsToChars(ds) ==
    IF ds = <<>> THEN <<>>
    ELSE <<DigitChars[Head(ds) + 1]>> \o DigitsToChars(Tail(ds))

FormatInt(n) == (IF n.neg THEN <<"-">> ELSE <<>>) \o DigitsToChars(n.mag)

\* parseInt of gjson: an optional '-' and then digits only, else (0, false).
RECURSIVE parseDigits(_, _)
parseDigits(s, acc) ==
    IF s = <<>> THEN [ok |-> TRUE, mag |-> acc]
    ELSE IF IsDigitChar(Head(s)) THEN parseDigits(Tail(s), DecPush(acc, DigitVal(Head(s))))
    ELSE [ok |-> FALSE, mag |-> Zero]

parseInt(s) ==
    LET sign == Len(s) > 0 /\ s[1] = "-"
        rest == IF sign THEN Tail(s) ELSE s
        r == parseDigits(rest, Zero)
    IN  IF rest = <<>> \/ ~r.ok THEN [ok |-> FALSE, n |-> Nat64(Zero)]
        ELSE [ok |-> TRUE, n |-> Int64(sign, r.mag)]

\* Result.String(): "" for a missing path, the string, or the literal's text.
gjsonString(v) ==
    CASE v.type = "String" -> v.str
      [] v.type = "Number" -> FormatInt(v.num)
      [] OTHER -> <<>>

\* Result.Int(): 0 for a missing path, parseInt's value (0 when it fails) for a
\* string, the integer for an integer literal.
gjsonInt(v) ==
    CASE v.type = "String" -> parseInt(v.str).n
      [] v.type = "Number" -> v.num
      [] OTHER -> Nat64(Zero)

\* ---------------------------------------------------------------- time.ParseDuration

\* leadingInt: the leading digits of s as an integer; it fails past 1<<63.
RECURSIVE leadingInt(_, _)
leadingInt(s, x) ==
    IF s = <<>> \/ ~IsDigitChar(Head(s)) THEN [ok |-> TRUE, x |-> x, rem |-> s]
    ELSE IF DecLess(Two63Div10, x) THEN [ok |-> FALSE, x |-> Zero, rem |-> s]
    ELSE LET y == DecPush(x, DigitVal(Head(s)))
         IN  IF DecLess(Two63, y) THEN [ok |-> FALSE, x |-> Zero, rem |-> s]
             ELSE leadingInt(Tail(s), y)

\* The units this program can write: it formats "%ds" only.
UnitDigits(u) == IF u = <<"s">> THEN 9 ELSE 0

\* time.ParseDuration on "[-]<digits><unit>", the strings "%ds" produces: a
\* sign, one integer, one unit (no fraction, no second term).
ParseDuration(s) ==
    LET neg == s # <<>> /\ s[1] = "-"
        body == IF s # <<>> /\ s[1] \in {"-", "+"} THEN Tail(s) ELSE s
        li == leadingInt(body, Zero)
        bad == [ok |-> FALSE, d |-> Nat64(Zero)]
    IN  IF body = <<"0">> THEN [ok |-> TRUE, d |-> Nat64(Zero)]
        ELSE IF body = <<>> THEN bad
        ELSE IF ~li.ok THEN bad
        ELSE IF li.rem = body THEN bad                  \* no digits
        ELSE IF li.rem # <<"s">> THEN bad                \* missing or unknown unit
        ELSE IF DecLess(Two63DivSecond, li.x) THEN bad   \* v > 1<<63/unit
        ELSE LET d == DecShift(li.x, UnitDigits(li.rem))
             IN  IF DecLess(Two63, d) THEN bad
                 ELSE IF neg THEN [ok |-> TRUE, d |-> Int64(TRUE, d)]
                 ELSE IF DecLess(MaxInt64, d) THEN bad
                 ELSE [ok |-> TRUE, d |-> Nat64(d)]

\* A variant of parseSeconds that formats "%d", without the unit.
parseSeconds_NoUnit(durstr) == ParseDuration(FormatInt(durstr))

\* fmt.Sprintf("%ds", durstr) followed by time.ParseDuration (lines 112-113).
parseSeconds(durstr) == ParseDuration(FormatInt(durstr) \o <<"s">>)

\* ---------------------------------------------------------------- package time

isLeap(year) == year % 4 = 0 /\ (year % 100 # 0 \/ year % 400 = 0)

\* daysBefore[m]: the days of a non-leap year before month m + 1 starts.
daysBefore == <<0, 31, 59, 90, 120, 151, 181, 212, 243, 273, 304, 334, 365>>

\* daysIn(month, year).
daysIn(month, year) ==
    IF month = 2 /\ isLeap(year) THEN 29
    ELSE daysBefore[month + 1] - daysBefore[month]

daysPer400Years == 365 * 400 + 97
daysPer100Years == 365 * 100 + 24
daysPer4Years == 365 * 4 + 1

\* The days from 0001-01-01 to the first day of year (year >= 1): the
\* 400-, 100- and 4-year cycles and the years left.
daysSinceEpoch(year) ==
    daysPer400Years * ((year - 1) \div 400)
    + daysPer100Years * (((year - 1) % 400) \div 100)
    + daysPer4Years * (((year - 1) % 100) \div 4)
    + 365 * ((year - 1) % 4)

\* time.Date(year, month, day, hour, min, sec, 0, UTC) for a month in 1..12 and
\* a clock in range; the day may lie outside the month (AddDate relies on it).
Date(year, month, day, hour, min, sec) ==
    [days |-> daysSinceEpoch(year) + daysBefore[month]
              + (IF isLeap(year) /\ month >= 3 THEN 1 ELSE 0) + day - 1,
     sod |-> hour * 3600 + min * 60 + sec]

\* n -= n >> 2: the last cycle of four has one day more, cut off here.
cutLast(n) == n - (n \div 4)

\* absDate: the year and the 0-based day of the year of a day count, cutting
\* off 400-year, 100-year, 4-year cycles and years in turn (d: the days left,
\* y: the years counted).
absYears(d, y) ==
    [year |-> y + cutLast(d \div 365) + 1, yday |-> d - 365 * cutLast(d \div 365)]

abs4Years(d, y) == absYears(d % daysPer4Years, y + 4 * (d \div daysPer4Years))

abs100Years(d, y) ==
    abs4Years(d - daysPer100Years * cutLast(d \div daysPer100Years),
              y + 100 * cutLast(d \div daysPer100Years))

absDate(days) == abs100Years(days % daysPer400Years, 400 * (days \div daysPer400Years))

\* The month and day of the 0-based day of a year, for a day that is not
\* February 29 (day: the day of the year with a leap day taken out).
monthDay(year, day, month) ==
    IF day >= daysBefore[month + 2]
    THEN [year |-> year, month |-> month + 2, day |-> day - daysBefore[month + 2] + 1]
    ELSE [year |-> year, month |-> month + 1, day |-> day - daysBefore[month + 1] + 1]

civilOf(a) ==
    IF isLeap(a.year) /\ a.yday = 31 + 29 - 1
    THEN [year |-> a.year, month |-> 2, day |-> 29]
    ELSE IF isLeap(a.year) /\ a.yday > 31 + 29 - 1
         THEN monthDay(a.year, a.yday - 1, (a.yday - 1) \div 31)
    ELSE monthDay(a.year, a.yday, a.yday \div 31)

\* Time.Date(): the civil date of t.
TimeDate(t) == civilOf(absDate(t.days))

\* Time.Clock(): hour, minute and second of t.
TimeClock(t) ==
    [hour |-> t.sod \div 3600, min |-> (t.sod % 3600) \div 60, sec |-> t.sod % 60]

\* t.AddDate(0, 0, days): Date() of t's civil date c and clock k with the day
\* moved.
dateMoved(c, k, days) == Date(c.year, c.month, c.day + days, k.hour, k.min, k.sec)

AddDays(t, days) == dateMoved(TimeDate(t), TimeClock(t), days)

\* The state of time.Parse: whether the value still matches, what is left of
\* it, and the fields read.
parseStart(value) ==
    [ok |-> TRUE, rest |-> value, year |-> 0, month |-> 0, day |-> 0, hour |-> 0,
     min |-> 0, sec |-> 0]

parseFail(p) == [p EXCEPT !.ok = FALSE]

\* The layout's "2006": four digits.
stdLongYear(p) ==
    IF ~p.ok THEN p
    ELSE IF ~(Len(p.rest) >= 4 /\ \A i \in 0..3 : isDigit(p.rest, i)) THEN parseFail(p)
    ELSE [p EXCEPT !.year = DigitVal(p.rest[1]) * 1000 + DigitVal(p.rest[2]) * 100
                            + DigitVal(p.rest[3]) * 10 + DigitVal(p.rest[4]),
                   !.rest = From(p.rest, 4)]

\* getnum: one or two leading digits of s; two are required when fixed.
getnum(s, fixed) ==
    IF ~isDigit(s, 0) THEN [ok |-> FALSE, n |-> 0, rest |-> s]
    ELSE IF ~isDigit(s, 1)
         THEN IF fixed THEN [ok |-> FALSE, n |-> 0, rest |-> s]
              ELSE [ok |-> TRUE, n |-> DigitVal(s[1]), rest |-> From(s, 1)]
    ELSE [ok |-> TRUE, n |-> DigitVal(s[1]) * 10 + DigitVal(s[2]), rest |-> From(s, 2)]

\* A numeric field of the layout, stored when getnum's number g is in lo..hi.
stored(p, field, g, lo, hi) ==
    IF ~g.ok \/ g.n < lo \/ g.n > hi THEN parseFail(p)
    ELSE [p EXCEPT ![field] = g.n, !.rest = g.rest]

\* The layout's "01", "02", "04", "05" (two digits) and "15" (one or two).
stdNum(p, field, fixed, lo, hi) ==
    IF ~p.ok THEN p ELSE stored(p, field, getnum(p.rest, fixed), lo, hi)

\* A literal character of the layout: the value must continue with it.
skip(p, c) ==
    IF ~p.ok THEN p
    ELSE IF Len(p.rest) >= 1 /\ p.rest[1] = c THEN [p EXCEPT !.rest = Tail(p.rest)]
    ELSE parseFail(p)

\* The end of Parse: nothing may follow, the day must be one of its month.
parseEnd(p) ==
    IF ~p.ok \/ p.rest # <<>> \/ p.day < 1 \/ p.day > daysIn(p.month, p.year)
    THEN [ok |-> FALSE, t |-> [days |-> 0, sod |-> 0]]
    ELSE [ok |-> TRUE, t |-> Date(p.year, p.month, p.day, p.hour, p.min, p.sec)]

\* time.Parse("2006-01-02T15:04:05Z", value) on values without a fraction of
\* a second: the layout's fields and literals from left to right.
parseDatePart(value) ==
    stdNum(skip(stdNum(skip(stdLongYear(parseStart(value)), "-"),
                       "month", TRUE, 1, 12), "-"),
           "day", TRUE, 0, 99)

parseClockPart(p) ==
    stdNum(skip(stdNum(skip(stdNum(skip(p, "T"), "hour", FALSE, 0, 23), ":"),
                       "min", TRUE, 0, 59), ":"),
           "sec", TRUE, 0, 59)

ParseTime(value) == parseEnd(skip(parseClockPart(parseDatePart(value)), "Z"))

\* A variant of pubdateOf that keeps the upstream date.
pubdateOf_Uncorrected(parsed) == AddDays(parsed, 0)

\* parsed.AddDate(0, 0, -1) (line 124).
pubdateOf(parsed) == AddDays(parsed, -1)

\* ---------------------------------------------------------------- the pipeline

\* What the network answers to one http.Get: a transport error, or a status
\* and a body whose reading may fail.
Response(neterr, status, readerr, body) ==
    [neterr |-> neterr, status |-> status, readerr |-> readerr, body |-> body]

ErrNet == "Get: connection refused"
ErrStatus == "status code error"
ErrRead == "unexpected EOF"
ErrNoEpisodes == "No episodes found."

\* A variant of get without the test of the status code.
get_AnyStatus(res, nobody) ==
    IF res.neterr THEN [body |-> nobody, err |-> ErrNet]
    ELSE IF res.readerr THEN [body |-> nobody, err |-> ErrRead]
    ELSE [body |-> res.body, err |-> NoErr]

\* get (lines 59-77): the body, or the error and no body.
get(res, nobody) ==
    IF res.neterr THEN [body |-> nobody, err |-> ErrNet]
    ELSE IF res.status # 200 THEN [body |-> nobody, err |-> ErrStatus]
    ELSE IF res.readerr THEN [body |-> nobody, err |-> ErrRead]
    ELSE [body |-> res.body, err |-> NoErr]

\* The payload a missing body stands for: gjson finds nothing in "".
NoPayload ==
    [uuid |-> JNull, url |-> JNull, title |-> JNull, mp3 |-> JNull,
     duration |-> JNull, date |-> JNull]

\* The Episode of a payload (lines 107-110 and 126-133). The field elem is
\* not a field of Episode: it records the element the Episode was built from.
episodeOf(json, pubdate, duration, i) ==
    [Title |-> gjsonString(json.title), Link |-> gjsonString(json.url),
     MP3 |-> gjsonString(json.mp3), UUID |-> gjsonString(json.uuid),
     PubDate |-> pubdate, Duration |-> duration, elem |-> i]

\* What the callback of Each reports: whether it requested the element's
\* data-player-json URL, and the Episode it appends, if any.
Skipped(fetched, i) ==
    [fetched |-> fetched, ok |-> FALSE,
     ep |-> episodeOf(NoPayload, [days |-> 0, sod |-> 0], Nat64(Zero), i)]

\* Lines 112-135: the duration, then the date, then the Episode.
extract(json, dur, parsed, i) ==
    IF ~dur.ok THEN Skipped(TRUE, i)
    ELSE IF ~parsed.ok THEN Skipped(TRUE, i)
    ELSE [fetched |-> TRUE, ok |-> TRUE,
          ep |-> episodeOf(json, pubdateOf(parsed.t), dur.d, i)]

\* Lines 101-106: the secondary fetch.
fetched(res, i) ==
    IF res.err # NoErr THEN Skipped(TRUE, i)
    ELSE extract(res.body, parseSeconds(gjsonInt(res.body.duration)),
                 ParseTime(gjsonString(res.body.date)), i)

\* The callback of Each (lines 95-136) on the i-th matching element s.
eachElement(s, i) ==
    IF ~s.attr THEN Skipped(FALSE, i) ELSE fetched(get(s.res, NoPayload), i)

\* What one call of the callback adds to the episodes and to the secondary
\* fetches made.
appended(acc, r, i) ==
    [episodes |-> IF r.ok THEN Append(acc.episodes, r.ep) ELSE acc.episodes,
     fetched |-> IF r.fetched THEN Append(acc.fetched, i) ELSE acc.fetched]

\* A variant of Each in which a skipped element ends the iteration.
RECURSIVE Each_StopAtSkip(_, _, _)
Each_StopAtSkip(page, i, acc) ==
    IF i > Len(page) THEN acc
    ELSE IF ~eachElement(page[i], i).ok THEN appended(acc, eachElement(page[i], i), i)
    ELSE Each_StopAtSkip(page, i + 1, appended(acc, eachElement(page[i], i), i))

\* doc.Find(...).Each(...) (line 95): the callback on every matching element
\* in page order, from the i-th on; acc holds the episodes appended and the
\* secondary fetches made so far.
RECURSIVE Each(_, _, _)
Each(page, i, acc) ==
    IF i > Len(page) THEN acc
    ELSE Each(page, i + 1, appended(acc, eachElement(page[i], i), i))

\* A variant of emptyCheck that returns whatever was collected.
emptyCheck_Unchecked(acc) ==
    [episodes |-> acc.episodes, err |-> NoErr, fetched |-> acc.fetched]

\* The end of fetchEpisodes (lines 138-142).
emptyCheck(acc) ==
    IF Len(acc.episodes) < 1
    THEN [episodes |-> <<>>, err |-> ErrNoEpisodes, fetched |-> acc.fetched]
    ELSE [episodes |-> acc.episodes, err |-> NoErr, fetched |-> acc.fetched]

\* Lines 83-95 and 138-142, after the primary fetch.
parsePage(res) ==
    IF res.err # NoErr
    THEN [episodes |-> <<>>, err |-> res.err, fetched |-> <<>>]
    ELSE emptyCheck(Each(res.body, 1, [episodes |-> <<>>, fetched |-> <<>>]))

\* fetchEpisodes (lines 82-143) against what the network serves for the
\* endpoint. goquery.NewDocumentFromReader does not fail on a string.
fetchEpisodes(primary) == parsePage(get(primary, <<>>))

\* The string "" and a serialized feed: its items in order.
EmptyString == [text |-> "", items |-> <<>>]

\* The podcasts.Item built from an Episode (lines 160-169).
ItemOf(episode) ==
    [Title |-> episode.Title, GUID |-> episode.UUID, Duration |-> episode.Duration,
     EnclosureURL |-> episode.MP3, EnclosureType |-> "MP3",
     PubDate |-> episode.PubDate]

FeedText(episodes) ==
    [text |-> "Henry Rollins - KCRW",
     items |-> [k \in 1..Len(episodes) |-> ItemOf(episodes[k])]]

\* The tail of generateXML (lines 172-178): podcast.Feed() and its error.
feedResult(episodes, feedok) ==
    IF ~feedok THEN [doc |-> EmptyString, err |-> NoErr]
    ELSE [doc |-> FeedText(episodes), err |-> NoErr]

\* generateXML after its call of fetchEpisodes (lines 147-179).
assemble(f, feedok) ==
    IF f.err # NoErr THEN [doc |-> EmptyString, err |-> f.err]
    ELSE feedResult(f.episodes, feedok)

\* generateXML (lines 145-180) in a world w: what the network serves and
\* whether podcast.Feed() succeeds.
generateXML(w) == assemble(fetchEpisodes(w.primary), w.feed)

\* ---------------------------------------------------------------- what upstream serves

Civil(year, month, day, hour, min, sec) ==
    [year |-> year, month |-> month, day |-> day, hour |-> hour, min |-> min, sec |-> sec]

Pad2(n) == <<DigitChars[(n \div 10) + 1], DigitChars[(n % 10) + 1]>>

\* The upstream rendering of a date, YYYY-MM-DDTHH:MM:SSZ.
RenderDate(c) ==
    Pad2(c.year \div 100) \o Pad2(c.year % 100) \o <<"-">> \o Pad2(c.month) \o <<"-">>
    \o Pad2(c.day) \o <<"T">> \o Pad2(c.hour) \o <<":">> \o Pad2(c.min) \o <<":">>
    \o Pad2(c.sec) \o <<"Z">>

\* The payload of an episode published on the civil date c that lasts n seconds.
Payload(id, c, n) ==
    [uuid |-> JStr(<<"u", id>>), url |-> JStr(<<"l", id>>), title |-> JStr(<<"t", id>>),
     mp3 |-> JStr(<<"m", id>>), duration |-> JNum(Nat64(n)), date |-> JStr(RenderDate(c))]

\* A matching element: whether it has the data-player-json attribute, what the
\* network answers for that URL, and (not read by the program) the civil date
\* upstream rendered into the payload.
Element(attr, res, upstream) == [attr |-> attr, res |-> res, upstream |-> upstream]

Served(payload) == Response(FALSE, 200, FALSE, payload)

June15 == Civil(2021, 6, 15, 10, 0, 0)
March1 == Civil(2021, 3, 1, 0, 0, 0)

GoodA == Element(TRUE, Served(Payload("a", June15, <<7, 2, 0, 0>>)), June15)
GoodB == Element(TRUE, Served(Payload("b", March1, <<3, 6, 0, 0>>)), March1)
NoAttr == Element(FALSE, Served(Payload("c", June15, <<7, 2, 0, 0>>)), June15)
Fetch404 == Element(TRUE, Response(FALSE, 404, FALSE, NoPayload), June15)
FetchNetErr == Element(TRUE, Response(TRUE, 0, FALSE, NoPayload), June15)
DateMissing ==
    Element(TRUE, Served([Payload("d", June15, <<6, 0>>) EXCEPT !.date = JNull]), June15)
DateOnly ==
    Element(TRUE, Served([Payload("e", June15, <<6, 0>>) EXCEPT
                             !.date = JStr(<<"2","0","2","1","-","0","6","-","1","5">>)]),
            June15)
DurationHuge == Element(TRUE, Served(Payload("f", June15, MaxInt64)), June15)
DurationMissing ==
    Element(TRUE, Served([Payload("g", June15, Zero) EXCEPT !.duration = JNull]), June15)
DurationText ==
    Element(TRUE, Served([Payload("h", June15, Zero) EXCEPT
                             !.duration = JStr(<<"2","h","r",","," ","2","m","i","n">>)]),
            June15)
FieldsMissing ==
    Element(TRUE, Served([Payload("i", June15, <<6, 0>>) EXCEPT
                             !.uuid = JNull, !.title = JNull, !.mp3 = JNull, !.url = JNull]),
            June15)

ElementKinds ==
    {GoodA, GoodB, NoAttr, Fetch404, FetchNetErr, DateMissing, DateOnly, DurationHuge,
     DurationMissing, DurationText, FieldsMissing}

Pages == UNION {[1..n -> ElementKinds] : n \in 0..MaxElems}

\* The ways the primary fetch fails.
PrimaryFailures ==
    {Response(TRUE, 0, FALSE, <<>>), Response(FALSE, 404, FALSE, <<>>),
     Response(FALSE, 500, FALSE, <<>>), Response(FALSE, 204, FALSE, <<>>),
     Response(FALSE, 200, TRUE, <<>>)}

World(primary, feed) == [primary |-> primary, feed |-> feed]

PageWorlds ==
    {World(r, f) : r \in PrimaryFailures \cup {Served(p) : p \in Pages}, f \in BOOLEAN}

\* Pages of one episode, over the dates of four years (a common year, a leap
\* year, a century leap year, a century common year), days that no month has
\* included.
DateInputs ==
    {Civil(y, m, d, k[1], k[2], k[3]) :
        y \in {2000, 2020, 2021, 2100}, m \in 1..12, d \in 1..31,
        k \in {<<0, 0, 0>>, <<23, 59, 59>>}}

DateWorlds ==
    {World(Served(<<Element(TRUE, Served(Payload("a", c, <<6, 0>>)), c)>>), TRUE) :
        c \in DateInputs}

\* Pages of one episode, over durations d * 10^k of the int64 range and the
\* values around the largest count of seconds a time.Duration holds.
DurationInputs ==
    {DecShift(<<d>>, k) : d \in 1..9, k \in 0..17}
    \cup {DecShift(<<d>>, 18) : d \in 1..9}
    \cup {Zero, MaxInt64, Two63DivSecond,
          <<9,2,2,3,3,7,2,0,3,5>>, <<9,2,2,3,3,7,2,0,3,7>>,
          <<2,1,4,7,4,8,3,6,4,7>>, <<2,1,4,7,4,8,3,6,4,8>>, <<4,2,9,4,9,6,7,2,9,6>>}

DurationWorlds ==
    {World(Served(<<Element(TRUE, Served(Payload("a", June15, n)), June15)>>), TRUE) :
        n \in DurationInputs}

\* The worlds of a server run.
ServerWorlds ==
    {World(Response(FALSE, 500, FALSE, <<>>), TRUE),
     World(Served(<<>>), TRUE),
     World(Served(<<GoodA>>), TRUE),
     World(Served(<<GoodB, Fetch404>>), TRUE),
     World(Served(<<GoodA>>), FALSE)}

\* ---------------------------------------------------------------- the pipeline's runs

Handlers == 1..NumHandlers

NoResponse == [iserr |-> FALSE, text |-> "", doc |-> EmptyString, set |-> FALSE]

IdleServer ==
    /\ xml = EmptyString
    /\ err = NoErr
    /\ hist = <<>>
    /\ rpc = "off"
    /\ pend = {}
    /\ hpc = [h \in Handlers |-> "idle"]
    /\ hloc = [h \in Handlers |-> [start |-> 0]]
    /\ resp = [h \in Handlers |-> NoResponse]

NotRun == [episodes |-> <<>>, err |-> NoErr, fetched |-> <<>>]

\* One run of the pipeline in a world drawn from the page, date and duration
\* inputs; nothing has run yet.
Init ==
    /\ world \in PageWorlds \cup DateWorlds \cup DurationWorlds
    /\ pc = "start"
    /\ fres = NotRun
    /\ gres = [doc |-> EmptyString, err |-> NoErr]
    /\ IdleServer

\* A call of generateXML (lines 145-180), and within it of fetchEpisodes.
GenerateXML ==
    /\ pc = "start"
    /\ pc' = "done"
    /\ fres' = fetchEpisodes(world.primary)
    /\ gres' = generateXML(world)
    /\ UNCHANGED <<world, serverVars>>

Next == GenerateXML

Spec == Init /\ [][Next]_vars

\* ---------------------------------------------------------------- claims on the pipeline

\* The primary fetch delivered the page.
PrimaryServed == ~world.primary.neterr /\ world.primary.status = 200 /\ ~world.primary.readerr

ThePage == world.primary.body

\* A transport failure in the words of the specification: a network error or
\* a status outside 2xx.
TransportFailure(r) == r.neterr \/ r.status \notin 200..299

SecondaryServed(s) == ~s.res.neterr /\ s.res.status = 200 /\ ~s.res.readerr

\* The per-element steps that fail: no data-player-json attribute, a failed
\* secondary fetch, a duration time.ParseDuration rejects, a date time.Parse
\* rejects.
ElementFails(s) ==
    \/ ~s.attr
    \/ ~SecondaryServed(s)
    \/ ~parseSeconds(gjsonInt(s.res.body.duration)).ok
    \/ ~ParseTime(gjsonString(s.res.body.date)).ok

Survivors(page) == {i \in 1..Len(page) : ~ElementFails(page[i])}

ElemsOf(episodes) == [k \in 1..Len(episodes) |-> episodes[k].elem]

\* C1: fetchEpisodes never returns an empty but successful result: when the
\* page is served and no element yields an Episode (none matches, or every one
\* is skipped) it returns no sequence and the error "No episodes found.", and
\* whenever its error is nil it returns at least one Episode.
C1_NeverEmptySuccess ==
    pc = "done" =>
        /\ fres.err = NoErr => Len(fres.episodes) >= 1
        /\ (PrimaryServed /\ \A i \in 1..Len(ThePage) : ElementFails(ThePage[i]))
              => fres.episodes = <<>> /\ fres.err = ErrNoEpisodes

C1_Witness ==
    /\ pc = "done" /\ PrimaryServed
    /\ Len(ThePage) >= 2
    /\ \A i \in 1..Len(ThePage) : ElementFails(ThePage[i])
    /\ fres.err = ErrNoEpisodes

\* C2: extraction is best-effort per item: of the N matching elements of a
\* served page, the k that fail a per-element step yield nothing, and the
\* Episodes returned are exactly those of the N - k others, one each, in page
\* order, each built from its own element's payload; the call succeeds
\* whenever N - k >= 1.
C2_BestEffortPerItem ==
    (pc = "done" /\ PrimaryServed) =>
        LET elems == ElemsOf(fres.episodes)
            n == Len(ThePage)
            k == Cardinality({i \in 1..n : ElementFails(ThePage[i])})
        IN  /\ Len(fres.episodes) = n - k
            /\ {elems[j] : j \in 1..Len(elems)} = Survivors(ThePage)
            /\ \A j \in 1..Len(elems) : \A l \in 1..Len(elems) : j < l => elems[j] < elems[l]
            /\ \A j \in 1..Len(elems) :
                  fres.episodes[j].Title = gjsonString(ThePage[elems[j]].res.body.title)
            /\ (n - k >= 1) => fres.err = NoErr

C2_Witness ==
    /\ pc = "done" /\ PrimaryServed
    /\ Len(ThePage) = 3
    /\ ~ElementFails(ThePage[1]) /\ ElementFails(ThePage[2]) /\ ~ElementFails(ThePage[3])
    /\ ThePage[1] # ThePage[3]
    /\ ElemsOf(fres.episodes) = <<1, 3>>
    /\ fres.err = NoErr

\* C3: a transport failure is scoped by the fetch it hits. A failed primary
\* fetch makes fetchEpisodes and generateXML return that error, with no
\* Episode, no document and no secondary fetch. On a served page every
\* element that has the attribute is fetched, whatever happened to the
\* fetches before it; an element whose secondary fetch fails yields no
\* Episode, the others are extracted, and the batch fails only when no
\* Episode survives.
C3_TransportFailureScope ==
    pc = "done" =>
        /\ TransportFailure(world.primary) =>
              /\ fres.err = (IF world.primary.neterr THEN ErrNet ELSE ErrStatus)
              /\ fres.episodes = <<>> /\ fres.fetched = <<>>
              /\ gres.err = fres.err /\ gres.doc = EmptyString
        /\ PrimaryServed =>
              /\ {fres.fetched[j] : j \in 1..Len(fres.fetched)}
                    = {i \in 1..Len(ThePage) : ThePage[i].attr}
              /\ \A i \in 1..Len(ThePage) :
                    (ThePage[i].attr /\ ~SecondaryServed(ThePage[i]))
                        => \A j \in 1..Len(fres.episodes) : fres.episodes[j].elem # i
              /\ \A i \in Survivors(ThePage) :
                    \E j \in 1..Len(fres.episodes) : fres.episodes[j].elem = i
              /\ fres.err # NoErr <=> Survivors(ThePage) = {}

C3_Witness ==
    /\ pc = "done" /\ PrimaryServed
    /\ Len(ThePage) = 3
    /\ ThePage[1].attr /\ ~SecondaryServed(ThePage[1])
    /\ ~ElementFails(ThePage[2])
    /\ ThePage[3].attr /\ ~SecondaryServed(ThePage[3])
    /\ fres.fetched = <<1, 2, 3>>
    /\ ElemsOf(fres.episodes) = <<2>>
    /\ gres.err = NoErr /\ gres.doc # EmptyString

\* C5: a failure to serialize the feed is an error of the whole operation:
\* whenever podcast.Feed() fails, generateXML returns a non-nil error.
C5_FeedFailureIsError ==
    (pc = "done" /\ fres.err = NoErr /\ ~world.feed) => gres.err # NoErr

\* A payload that holds every expected field with a value of its kind: text
\* for uuid, url, title and media.0.url, an integer for duration, a date of
\* the fixed format for date.
IsText(v) == v.type = "String"

PayloadParses(json) ==
    /\ IsText(json.uuid) /\ IsText(json.url) /\ IsText(json.title) /\ IsText(json.mp3)
    /\ json.duration.type = "Number"
    /\ IsText(json.date) /\ ParseTime(json.date.str).ok

\* C8: a parse error aborts exactly the affected episode: an element whose
\* payload lacks, or holds an unparsable value for, any of uuid, url, title,
\* media.0.url, duration and date produces no Episode; an episode whose
\* duration cannot be parsed is never emitted with a substituted duration.
C8_ParseErrorDropsEpisode ==
    (pc = "done" /\ PrimaryServed) =>
        \A i \in 1..Len(ThePage) :
            (ThePage[i].attr /\ SecondaryServed(ThePage[i])
                /\ ~PayloadParses(ThePage[i].res.body))
              => \A j \in 1..Len(fres.episodes) : fres.episodes[j].elem # i

\* The civil day before c, by the calendar.
MonthLength(year, month) ==
    IF month \in {4, 6, 9, 11} THEN 30
    ELSE IF month # 2 THEN 31
    ELSE IF year % 400 = 0 \/ (year % 4 = 0 /\ year % 100 # 0) THEN 29
    ELSE 28

DayBefore(c) ==
    IF c.day > 1 THEN [c EXCEPT !.day = c.day - 1]
    ELSE IF c.month > 1
         THEN [c EXCEPT !.month = c.month - 1, !.day = MonthLength(c.year, c.month - 1)]
    ELSE [c EXCEPT !.year = c.year - 1, !.month = 12, !.day = 31]

\* The instant of a civil date: its Julian day number, counted from 0001-01-01.
InstantOf(c) ==
    LET a == (14 - c.month) \div 12
        y == c.year + 4800 - a
        m == c.month + 12 * a - 3
        jdn == c.day + ((153 * m + 2) \div 5) + 365 * y + (y \div 4) - (y \div 100)
               + (y \div 400) - 32045
    IN  [days |-> jdn - 1721426, sod |-> c.hour * 3600 + c.min * 60 + c.sec]

\* C6: the PubDate of every Episode returned is the upstream date, read as
\* UTC, moved back by exactly one calendar day with the time of day
\* unchanged, across the starts of months and years too.
C6_PubDateOneDayBack ==
    (pc = "done" /\ PrimaryServed) =>
        \A j \in 1..Len(fres.episodes) :
            LET s == ThePage[fres.episodes[j].elem]
            IN  s.res.body.date = JStr(RenderDate(s.upstream))
                    => fres.episodes[j].PubDate = InstantOf(DayBefore(s.upstream))

C6_Witness ==
    /\ pc = "done" /\ PrimaryServed
    /\ Len(fres.episodes) = 1
    /\ ThePage[1].upstream = Civil(2021, 1, 1, 23, 59, 59)
    /\ ThePage[1].res.body.date = JStr(RenderDate(ThePage[1].upstream))
    /\ fres.episodes[1].PubDate = InstantOf(Civil(2020, 12, 31, 23, 59, 59))

\* n * 10^9 on decimal digits.
SecondsToNanos(n) == IF n = Zero THEN Zero ELSE n \o <<0, 0, 0, 0, 0, 0, 0, 0, 0>>

\* The elements whose payload holds an integer duration n >= 0 and that fail
\* no other step.
HasIntDuration(s) ==
    /\ s.attr /\ SecondaryServed(s)
    /\ s.res.body.duration.type = "Number" /\ ~s.res.body.duration.num.neg
    /\ ParseTime(gjsonString(s.res.body.date)).ok

EpisodesOf(i) == {j \in 1..Len(fres.episodes) : fres.episodes[j].elem = i}

\* C10 as stated: for every integer duration n >= 0 of the int64 range the
\* Episode is kept and its Duration is n * 10^9 nanoseconds.
C10_Original ==
    (pc = "done" /\ PrimaryServed) =>
        \A i \in 1..Len(ThePage) :
            HasIntDuration(ThePage[i]) =>
                \E j \in EpisodesOf(i) :
                    fres.episodes[j].Duration
                        = Nat64(SecondsToNanos(ThePage[i].res.body.duration.num.mag))

\* C10 as amended: for every integer duration n with 0 <= n <= 9223372036
\* the Episode is kept and its Duration is exactly n * 10^9 nanoseconds; for
\* a larger n, whose nanoseconds an int64 does not hold, the element yields
\* no Episode.
C10_DurationExactOrDropped ==
    (pc = "done" /\ PrimaryServed) =>
        \A i \in 1..Len(ThePage) :
            HasIntDuration(ThePage[i]) =>
                LET n == ThePage[i].res.body.duration.num.mag
                IN  IF DecLeq(n, <<9, 2, 2, 3, 3, 7, 2, 0, 3, 6>>)
                    THEN /\ Cardinality(EpisodesOf(i)) = 1
                         /\ \A j \in EpisodesOf(i) :
                               fres.episodes[j].Duration = Nat64(SecondsToNanos(n))
                    ELSE EpisodesOf(i) = {}

C10_Witness ==
    /\ pc = "done" /\ PrimaryServed
    /\ Len(ThePage) = 1 /\ HasIntDuration(ThePage[1])
    /\ ThePage[1].res.body.duration.num.mag = <<9, 2, 2, 3, 3, 7, 2, 0, 3, 6>>
    /\ Len(fres.episodes) = 1
    /\ fres.episodes[1].Duration.mag
         = <<9, 2, 2, 3, 3, 7, 2, 0, 3, 6, 0, 0, 0, 0, 0, 0, 0, 0, 0>>

\* ---------------------------------------------------------------- the server

\* main up to line 188: the initial run has assigned xml and err; the refresh
\* goroutine waits for its first tick and no request is being served.
InitServer ==
    /\ world \in ServerWorlds
    /\ pc = "done"
    /\ fres = fetchEpisodes(world.primary)
    /\ gres = generateXML(world)
    /\ xml = gres.doc
    /\ err = gres.err
    /\ hist = <<gres>>
    /\ rpc = "wait"
    /\ pend = {}
    /\ hpc = [h \in Handlers |-> "idle"]
    /\ hloc = [h \in Handlers |-> [start |-> 0]]
    /\ resp = [h \in Handlers |-> NoResponse]

\* The refresh goroutine, lines 192-193: a tick arrives and generateXML runs;
\* its two results are still to be assigned.
Tick ==
    /\ rpc = "wait"
    /\ Len(hist) < MaxRuns
    /\ \E w \in ServerWorlds :
          /\ world' = w
          /\ fres' = fetchEpisodes(w.primary)
          /\ gres' = generateXML(w)
    /\ rpc' = "assign"
    /\ pend' = {"xml", "err"}
    /\ UNCHANGED <<pc, xml, err, hist, hpc, hloc, resp>>

\* After its last store the run's result is in place (the log lines 194-197
\* touch nothing shared) and the goroutine waits for the next tick.
Stored(left) ==
    /\ pend' = left
    /\ IF left = {} THEN rpc' = "wait" /\ hist' = Append(hist, gres)
       ELSE UNCHANGED <<rpc, hist>>

\* Line 193, xml, err = generateXML(): two stores, unsynchronized with the
\* handlers' loads; the handlers may see them in either order.
AssignXml ==
    /\ rpc = "assign"
    /\ "xml" \in pend
    /\ xml' = gres.doc
    /\ Stored(pend \ {"xml"})
    /\ UNCHANGED <<pipeVars, err, hpc, hloc, resp>>

AssignErr ==
    /\ rpc = "assign"
    /\ "err" \in pend
    /\ err' = gres.err
    /\ Stored(pend \ {"err"})
    /\ UNCHANGED <<pipeVars, xml, hpc, hloc, resp>>

\* The /rss.xml handler, line 214: the load of err for the test err != nil.
CheckErr(h) ==
    /\ hpc[h] = "idle"
    /\ hpc' = [hpc EXCEPT ![h] = IF err # NoErr THEN "fmt" ELSE "write"]
    /\ hloc' = [hloc EXCEPT ![h] = [start |-> Len(hist)]]
    /\ UNCHANGED <<pipeVars, xml, err, hist, rpc, pend, resp>>

\* Line 215: the second load of err, for fmt.Sprintf("error!\n%s", err).
FormatErr(h) ==
    /\ hpc[h] = "fmt"
    /\ resp' = [resp EXCEPT ![h] =
                  [iserr |-> TRUE, text |-> IF err = NoErr THEN "%!s(<nil>)" ELSE err,
                   doc |-> EmptyString, set |-> TRUE]]
    /\ hpc' = [hpc EXCEPT ![h] = "done"]
    /\ UNCHANGED <<pipeVars, xml, err, hist, rpc, pend, hloc>>

\* Lines 218-219: the load of xml for the body.
WriteXml(h) ==
    /\ hpc[h] = "write"
    /\ resp' = [resp EXCEPT ![h] = [iserr |-> FALSE, text |-> "", doc |-> xml, set |-> TRUE]]
    /\ hpc' = [hpc EXCEPT ![h] = "done"]
    /\ UNCHANGED <<pipeVars, xml, err, hist, rpc, pend, hloc>>

\* The request is over; the handler is free for the next one.
Finish(h) ==
    /\ hpc[h] = "done"
    /\ hpc' = [hpc EXCEPT ![h] = "idle"]
    /\ resp' = [resp EXCEPT ![h] = NoResponse]
    /\ UNCHANGED <<pipeVars, xml, err, hist, rpc, pend, hloc>>

NextServer ==
    \/ Tick
    \/ AssignXml
    \/ AssignErr
    \/ \E h \in Handlers : CheckErr(h)
    \/ \E h \in Handlers : FormatErr(h)
    \/ \E h \in Handlers : WriteXml(h)
    \/ \E h \in Handlers : Finish(h)

SpecServer == InitServer /\ [][NextServer]_vars

\* ---------------------------------------------------------------- claims on the server

\* A run succeeded: no error and a document.
Succeeded(r) == r.err = NoErr /\ r.doc # EmptyString

\* The response the handler gives from the result of one run.
ResponseOf(r) ==
    IF r.err # NoErr
    THEN [iserr |-> TRUE, text |-> r.err, doc |-> EmptyString, set |-> TRUE]
    ELSE [iserr |-> FALSE, text |-> "", doc |-> r.doc, set |-> TRUE]

\* The runs whose result a handler may have met: those that have assigned
\* their result and the one assigning it.
RunsSoFar == {hist[k] : k \in 1..Len(hist)} \cup (IF rpc = "assign" THEN {gres} ELSE {})

\* The document of the most recent successful run among the first k.
GoodRuns(k) == {j \in 1..k : Succeeded(hist[j])}

LatestGood(k) == hist[CHOOSE j \in GoodRuns(k) : \A l \in GoodRuns(k) : l <= j].doc

\* C4: every response to /rss.xml is either an inline error message, "error!"
\* and the text of an error, or the document of the generation run that was
\* the most recent successful one at some moment of the request; never an
\* empty body, never an older document.
C4_LastGoodOrError ==
    \A h \in Handlers :
        hpc[h] = "done" =>
            \/ resp[h].iserr /\ \E r \in RunsSoFar : r.err # NoErr /\ resp[h].text = r.err
            \/ /\ ~resp[h].iserr
               /\ resp[h].doc # EmptyString
               /\ \/ \E k \in hloc[h].start..Len(hist) :
                        GoodRuns(k) # {} /\ resp[h].doc = LatestGood(k)
                  \/ rpc = "assign" /\ Succeeded(gres) /\ resp[h].doc = gres.doc

\* C7: each response is determined by the (document, error) result of one
\* single generation run.
C7_ResponseFromOneRun ==
    \A h \in Handlers :
        hpc[h] = "done" => \E r \in RunsSoFar : resp[h] = ResponseOf(r)

\* C9: once a refresh run has completed successfully, a request that starts
\* after it and is answered before the next run has completed returns that
\* run's document.
C9_RecoveredDocument ==
    \A h \in Handlers :
        (/\ hpc[h] = "done"
         /\ hloc[h].start >= 2
         /\ hloc[h].start = Len(hist)
         /\ Succeeded(hist[hloc[h].start]))
            => resp[h] = ResponseOf(hist[hloc[h].start])

====
